---------------------------- MODULE Spec2Model ----------------------------
(***************************************************************************)
(* Model of the json-database-st core (src/src/lib.rs): an in-memory JSON  *)
(* tree behind a reader-writer lock, a buffered write-ahead log, and a     *)
(* snapshot file rewritten through a temp file and a rename.               *)
(***************************************************************************)
EXTENDS Integers, Sequences, FiniteSets, TLC

(***************************************************************************)
(* Bounds of the model.                                                    *)
(***************************************************************************)
\* mutation calls (set / delete / batch) per behaviour
MaxMuts == 2
\* save calls per behaviour
MaxSaves == 1
\* load calls per behaviour
MaxLoads == 1
\* process restarts (graceful drop or crash, followed by new()) per behaviour
MaxRestarts == 1
\* injected I/O failures per behaviour
MaxFaults == 1
\* calls of set, delete, batch, save and load per behaviour of LockSpec
MaxCalls == 2

(***************************************************************************)
(* JSON values (serde_json::Value).  Every value is a record of the same   *)
(* shape: t is the variant, n the number, s the string, a the array        *)
(* elements, o the object map (a function from keys to values;             *)
(* serde_json's Map compares maps by content, whatever the key order).     *)
(***************************************************************************)
EmptyMap == [k \in {} |-> 0]

Null == [t |-> "null", n |-> 0, s |-> "", a |-> <<>>, o |-> EmptyMap]

Num(k) == [t |-> "num", n |-> k, s |-> "", a |-> <<>>, o |-> EmptyMap]

Str(x) == [t |-> "str", n |-> 0, s |-> x, a |-> <<>>, o |-> EmptyMap]

Arr(x) == [t |-> "arr", n |-> 0, s |-> "", a |-> x, o |-> EmptyMap]

Obj(m) == [t |-> "obj", n |-> 0, s |-> "", a |-> <<>>, o |-> m]

Bool(b) == [t |-> "bool", n |-> IF b THEN 1 ELSE 0, s |-> "", a |-> <<>>, o |-> EmptyMap]

\* Value::Object(serde_json::Map::new())
EmptyObj == Obj(EmptyMap)

is_object(v) == v.t = "obj"

is_array(v) == v.t = "arr"

is_null(v) == v.t = "null"

\* map.insert(key, value)
MapInsert(m, key, v) == [k \in (DOMAIN m) \cup {key} |-> IF k = key THEN v ELSE m[k]]

\* map.remove(key)
MapRemove(m, key) == [k \in (DOMAIN m) \ {key} |-> m[k]]

(***************************************************************************)
(* Paths.  A path is the sequence of segments that path.split('.') yields; *)
(* the empty string (path.is_empty()) is the empty sequence.               *)
(***************************************************************************)
\* part.parse::<usize>().is_ok(), over the segments the model uses
IsIndex(part) == part \in {"0", "1", "2"}

\* part.parse::<usize>().unwrap()
ParseIndex(part) == CASE part = "0" -> 0 [] part = "1" -> 1 [] part = "2" -> 2

\* the fresh container set_value_by_path creates: array when the deciding
\* segment is numeric, object otherwise
NewContainer(is_index) == IF is_index THEN Arr(<<>>) ELSE EmptyObj

\* a padding that pushes idx + 1 nulls whatever the length
PadArrayByIndex(arr, idx) == arr \o [i \in 1..(idx + 1) |-> Null]

\* while arr.len() <= idx { arr.push(Value::Null) }
RECURSIVE PadArray(_, _)
PadArray(arr, idx) == IF Len(arr) <= idx THEN PadArray(Append(arr, Null), idx) ELSE arr

\* a removal that empties the slot and keeps the later elements in place
ArrUnset(arr, idx) == [arr EXCEPT ![idx + 1] = Null]

\* arr.remove(idx)
ArrRemove(arr, idx) == SubSeq(arr, 1, idx) \o SubSeq(arr, idx + 2, Len(arr))

\* Option<..>: Some(x) and None
Some(x) == [it |-> x, some |-> TRUE]

None == [it |-> Null, some |-> FALSE]

\* get_value_by_path on node `current` with the remaining segments `parts`
RECURSIVE GetWalk(_, _)
GetWalk(current, parts) ==
    IF parts = <<>> THEN Some(current)
    ELSE LET part == Head(parts)
         IN  IF is_object(current)
             THEN IF part \in DOMAIN current.o
                  THEN GetWalk(current.o[part], Tail(parts))
                  ELSE None
             ELSE IF is_array(current) /\ IsIndex(part) /\ ParseIndex(part) < Len(current.a)
                  THEN GetWalk(current.a[ParseIndex(part) + 1], Tail(parts))
                  ELSE None

\* get_value_by_path(root, path)
get_value_by_path(root, path) == GetWalk(root, path)

\* One iteration of the loop of set_value_by_path on node `current` with the
\* remaining segments `parts`, and the iterations below it; yields the node
\* as the walk leaves it.
RECURSIVE SetWalk(_, _, _)
SetWalk(current, parts, value) ==
    LET part == Head(parts)
        is_last == Len(parts) = 1
        next_part_is_index == IF ~is_last THEN IsIndex(parts[2]) ELSE IsIndex(part)
        cur == IF ~is_object(current) /\ ~is_array(current)
               THEN NewContainer(next_part_is_index)
               ELSE current
    IN  IF is_object(cur)
        THEN IF is_last
             THEN Obj(MapInsert(cur.o, part, value))
             ELSE LET child == IF part \in DOMAIN cur.o
                               THEN cur.o[part]
                               ELSE NewContainer(IsIndex(parts[2]))
                  IN  Obj(MapInsert(cur.o, part, SetWalk(child, Tail(parts), value)))
        ELSE IF IsIndex(part)
             THEN LET idx == ParseIndex(part)
                      arr == PadArray(cur.a, idx)
                  IN  IF is_last
                      THEN Arr([arr EXCEPT ![idx + 1] = value])
                      ELSE LET child == IF is_null(arr[idx + 1])
                                        THEN NewContainer(IsIndex(parts[2]))
                                        ELSE arr[idx + 1]
                           IN  Arr([arr EXCEPT ![idx + 1] = SetWalk(child, Tail(parts), value)])
             ELSE cur

\* a set that starts from a fresh container in place of the root
SetFromFreshRoot(root, path, value) ==
    SetWalk(NewContainer(IsIndex(Head(path))), path, value)

\* set_value_by_path(root, path, value) for a non-empty path
set_value_by_path(root, path, value) == SetWalk(root, path, value)

\* One iteration of the loop of delete_value_by_path, and those below it.
RECURSIVE DeleteWalk(_, _)
DeleteWalk(current, parts) ==
    LET part == Head(parts)
    IN  IF Len(parts) = 1
        THEN IF is_object(current)
             THEN Obj(MapRemove(current.o, part))
             ELSE IF is_array(current) /\ IsIndex(part) /\ ParseIndex(part) < Len(current.a)
                  THEN Arr(ArrRemove(current.a, ParseIndex(part)))
                  ELSE current
        ELSE IF is_object(current)
             THEN IF part \in DOMAIN current.o
                  THEN Obj([current.o EXCEPT ![part] = DeleteWalk(current.o[part], Tail(parts))])
                  ELSE current
             ELSE IF is_array(current) /\ IsIndex(part) /\ ParseIndex(part) < Len(current.a)
                  THEN Arr([current.a EXCEPT ![ParseIndex(part) + 1] =
                                DeleteWalk(current.a[ParseIndex(part) + 1], Tail(parts))])
                  ELSE current

\* delete_value_by_path(root, path) for a non-empty path
delete_value_by_path(root, path) == DeleteWalk(root, path)

Range(f) == {f[i] : i \in DOMAIN f}

(***************************************************************************)
(* The query engine: find and its helpers.                                 *)
(***************************************************************************)
\* key.split('.') for the keys of queries and sort options the model uses
Split(key) ==
    CASE key = "" -> <<>>
      [] key = "p.x" -> <<"p", "x">>
      [] OTHER -> <<key>>

\* s1.cmp(s2) on the strings the model uses, by their rank
StrRank(x) == CASE x = "a" -> 1 [] x = "b" -> 2 [] x = "c" -> 3 [] x = "d" -> 4 [] OTHER -> 0

\* ord_to_int
ord_to_int(x, y) == IF x < y THEN -1 ELSE IF x = y THEN 0 ELSE 1

\* compare_json: Some(-1 | 0 | 1) for two numbers or two strings, else None
compare_json(v1, v2) ==
    IF v1.t = "num" /\ v2.t = "num" THEN Some(ord_to_int(v1.n, v2.n))
    ELSE IF v1.t = "str" /\ v2.t = "str"
         THEN Some(ord_to_int(StrRank(v1.s), StrRank(v2.s)))
         ELSE None

\* an operator match that takes a missing field for a null one
MatchAbsentAsNull(found, op, target) ==
    CASE op = "$exists" -> target = Bool(found.some)
      [] op = "$eq" -> found.it = target
      [] op = "$ne" -> found.it # target
      [] OTHER -> FALSE

\* match_operator(value, op, target); found is value as get_value_by_path gave it
match_operator(found, op, target) ==
    IF ~found.some THEN op = "$exists" /\ target = Bool(FALSE)
    ELSE LET v == found.it
             c == compare_json(v, target)
         IN  CASE op = "$eq" -> v = target
               [] op = "$ne" -> v # target
               [] op = "$gt" -> c.some /\ c.it > 0
               [] op = "$gte" -> c.some /\ c.it >= 0
               [] op = "$lt" -> c.some /\ c.it < 0
               [] op = "$lte" -> c.some /\ c.it <= 0
               [] op = "$in" -> is_array(target) /\ \E j \in DOMAIN target.a : target.a[j] = v
               [] op = "$nin" -> is_array(target) /\ \A j \in DOMAIN target.a : target.a[j] # v
               [] op = "$exists" -> target = Bool(TRUE)
               [] OTHER -> FALSE

\* k.starts_with('$') on the keys the model uses
StartsWithDollar(key) ==
    key \in {"$eq", "$ne", "$gt", "$gte", "$lt", "$lte", "$in", "$nin", "$exists", "$foo"}

\* check_condition(value, condition)
check_condition(found, condition) ==
    IF is_object(condition)
    THEN IF ~\E key \in DOMAIN condition.o : StartsWithDollar(key)
         THEN found.some /\ found.it = condition
         ELSE \A op \in DOMAIN condition.o : match_operator(found, op, condition.o[op])
    ELSE IF found.some THEN found.it = condition ELSE is_null(condition)

\* matches_query(item, query)
matches_query(item, query) ==
    IF is_object(query)
    THEN \A key \in DOMAIN query.o :
             check_condition(get_value_by_path(item, Split(key)), query.o[key])
    ELSE FALSE

\* the keys of a map in the order of its iteration; the maps the model
\* iterates have at most one key
KeyOrder(m) == IF DOMAIN m = {} THEN <<>> ELSE <<CHOOSE key \in DOMAIN m : TRUE>>

\* arr.iter() / map.values()
Elements(collection) ==
    IF collection.some /\ is_array(collection.it) THEN collection.it.a
    ELSE IF collection.some /\ is_object(collection.it)
         THEN [j \in 1..Len(KeyOrder(collection.it.o)) |->
                  collection.it.o[KeyOrder(collection.it.o)[j]]]
         ELSE <<>>

\* the loop of sort_json over the keys of sort_opts: -1 Less, 0 Equal, 1 Greater
RECURSIVE SortKeys(_, _, _, _)
SortKeys(x, y, sort_opts, keys) ==
    IF keys = <<>> THEN 0
    ELSE LET key == Head(keys)
             val_a == get_value_by_path(x, Split(key))
             val_b == get_value_by_path(y, Split(key))
             order == IF sort_opts.o[key].t = "num" THEN sort_opts.o[key].n ELSE 1
             c == compare_json(val_a.it, val_b.it)
             cmp == IF val_a.some /\ val_b.some THEN (IF c.some THEN c.it ELSE 0)
                    ELSE IF val_a.some THEN 1
                    ELSE IF val_b.some THEN -1
                    ELSE 0
         IN  IF cmp # 0 THEN (IF order < 0 THEN 0 - cmp ELSE cmp)
             ELSE SortKeys(x, y, sort_opts, Tail(keys))

\* sort_json(a, b, sort_opts)
sort_json(x, y, sort_opts) ==
    IF is_object(sort_opts) THEN SortKeys(x, y, sort_opts, KeyOrder(sort_opts.o)) ELSE 0

\* results.sort_by(..): a stable sort; x goes behind the elements that are
\* not Greater than it
RECURSIVE InsertSorted(_, _, _)
InsertSorted(sorted, x, sort_opts) ==
    IF sorted = <<>> THEN <<x>>
    ELSE IF sort_json(Head(sorted), x, sort_opts) <= 0
         THEN <<Head(sorted)>> \o InsertSorted(Tail(sorted), x, sort_opts)
         ELSE <<x>> \o sorted

RECURSIVE SortFrom(_, _, _)
SortFrom(sorted, rest, sort_opts) ==
    IF rest = <<>> THEN sorted
    ELSE SortFrom(InsertSorted(sorted, Head(rest), sort_opts), Tail(rest), sort_opts)

sort_by(results, sort_opts) == SortFrom(<<>>, results, sort_opts)

\* QueryOptions.  An absent limit is -1 and an absent skip is -1 (unwrap_or
\* gives u32::MAX and 0); an absent sort is Null and an absent select is the
\* empty list, which find treats as it treats the absent ones; absent
\* options are the options with every field absent.
QueryOptions(limit, skip, sort, select) ==
    [skip |-> skip, limit |-> limit, sort |-> sort, select |-> select]

\* items_ref filtered
Filtered(root, path, query) ==
    SelectSeq(Elements(get_value_by_path(root, path)), LAMBDA item : matches_query(item, query))

\* 1. Sort
Sorted(root, path, query, options) ==
    IF is_null(options.sort) THEN Filtered(root, path, query)
    ELSE sort_by(Filtered(root, path, query), options.sort)

\* 2. Skip and 3. Limit: limited_results
Limited(root, path, query, options) ==
    LET results == Sorted(root, path, query, options)
        skip == IF options.skip < 0 THEN 0 ELSE options.skip
        rest == SubSeq(results, skip + 1, Len(results))
    IN  IF options.limit < 0 THEN rest
        ELSE SubSeq(rest, 1, IF options.limit < Len(rest) THEN options.limit ELSE Len(rest))

\* 4. Project: the loop over fields.  set_value_by_path is applied to the
\* temporary Value::Object(map.clone()), which is dropped; map stays as it is.
RECURSIVE ProjectFields(_, _, _)
ProjectFields(item, fields, map) ==
    IF fields = <<>> THEN Obj(map)
    ELSE LET found == get_value_by_path(item, Head(fields))
             temporary == IF found.some
                          THEN set_value_by_path(Obj(map), Head(fields), found.it)
                          ELSE Obj(map)
         IN  ProjectFields(item, Tail(fields), map)

Project(item, fields) ==
    IF fields = <<>> THEN item ELSE ProjectFields(item, fields, EmptyMap)

\* find(path, query, options): selected_results
FindResults(root, path, query, options) ==
    LET limited_results == Limited(root, path, query, options)
    IN  [j \in 1..Len(limited_results) |-> Project(limited_results[j], options.select)]

(***************************************************************************)
(* Operations (enum Operation) and their application to the tree.          *)
(***************************************************************************)
\* Operation::Set { path, value }
SetOp(path, value) == [path |-> path, value |-> value, type |-> "Set"]

\* Operation::Delete { path }
DeleteOp(path) == [path |-> path, value |-> Null, type |-> "Delete"]

\* the body of set() under the write lock
ApplySet(data, path, value) ==
    IF path = <<>> THEN value ELSE set_value_by_path(data, path, value)

\* the body of delete() under the write lock
ApplyDelete(data, path) ==
    IF path = <<>> THEN EmptyObj ELSE delete_value_by_path(data, path)

\* one iteration of the apply loop of batch()
BatchApplyOp(data, op) ==
    IF op.type = "Set"
    THEN IF op.path = <<>> THEN op.value ELSE set_value_by_path(data, op.path, op.value)
    ELSE IF op.path = <<>> THEN EmptyObj ELSE delete_value_by_path(data, op.path)

\* the apply loop of batch() under the write lock
RECURSIVE BatchApply(_, _)
BatchApply(data, operations) ==
    IF operations = <<>> THEN data
    ELSE BatchApply(BatchApplyOp(data, Head(operations)), Tail(operations))

\* the first loop of batch(): the JSON items become operations; an item whose
\* "type" is neither "set" nor "delete" is dropped
RECURSIVE BatchParse(_)
BatchParse(ops) ==
    IF ops = <<>> THEN <<>>
    ELSE LET op_val == Head(ops)
             rest == BatchParse(Tail(ops))
         IN  IF op_val.type = "set" THEN <<SetOp(op_val.path, op_val.value)>> \o rest
             ELSE IF op_val.type = "delete" THEN <<DeleteOp(op_val.path)>> \o rest
             ELSE rest

(***************************************************************************)
(* The bytes of the WAL, as a sequence of tokens: "rec" is the encoding of *)
(* one operation (plain JSON, or the {iv, content, tag} envelope when enc),*)
(* "nl" is the newline that ends a record, "frag" is a run of bytes that is*)
(* no complete record (a torn write, or the hole a write past the end of   *)
(* the file leaves).  id names the mutation call that wrote the record.    *)
(***************************************************************************)
RecTok(op, enc, id) == [op |-> op, k |-> "rec", enc |-> enc, id |-> id]

NlTok == [op |-> DeleteOp(<<>>), k |-> "nl", enc |-> FALSE, id |-> 0]

FragTok == [op |-> DeleteOp(<<>>), k |-> "frag", enc |-> FALSE, id |-> 0]

\* a writer that leaves out the "\n" after the record
WalRecordNoNewline(op, key, id) == <<RecTok(op, key, id)>>

\* the bytes append_wal and batch write for one operation: the record, then "\n"
WalRecord(op, key, id) == <<RecTok(op, key, id), NlTok>>

RECURSIVE WalRecords(_, _, _)
WalRecords(operations, key, id) ==
    IF operations = <<>> THEN <<>>
    ELSE WalRecord(Head(operations), key, id) \o WalRecords(Tail(operations), key, id)

\* content.split(|b| *b == b'\n')
RECURSIVE SplitLines(_, _)
SplitLines(content, line) ==
    IF content = <<>> THEN <<line>>
    ELSE IF Head(content).k = "nl"
         THEN <<line>> \o SplitLines(Tail(content), <<>>)
         ELSE SplitLines(Tail(content), Append(line, Head(content)))

\* a line that is the bytes of exactly one record
IsRecordLine(line) == Len(line) = 1 /\ line[1].k = "rec"

\* What replay_wal makes of one non-empty line: skip it (continue), or the
\* operation to apply.  With a key, a line that is no JSON, or no envelope that
\* decrypts, is skipped; without a key, a line that is no operation becomes
\* Operation::Delete { path: "" }.
DecodeLine(line, key) ==
    IF key
    THEN IF IsRecordLine(line) /\ line[1].enc
         THEN [op |-> line[1].op, skip |-> FALSE]
         ELSE [op |-> DeleteOp(<<>>), skip |-> TRUE]
    ELSE IF IsRecordLine(line) /\ ~line[1].enc
         THEN [op |-> line[1].op, skip |-> FALSE]
         ELSE [op |-> DeleteOp(<<>>), skip |-> FALSE]

\* the match of replay_wal on one decoded operation
ReplayOp(data, op) ==
    IF op.type = "Set"
    THEN IF op.path = <<>> THEN op.value ELSE set_value_by_path(data, op.path, op.value)
    ELSE IF op.path = <<>> THEN EmptyObj ELSE delete_value_by_path(data, op.path)

\* the loop of replay_wal over the lines
RECURSIVE ReplayLines(_, _, _)
ReplayLines(data, lines, key) ==
    IF lines = <<>> THEN data
    ELSE LET line == Head(lines)
             d == DecodeLine(line, key)
         IN  IF line = <<>> \/ d.skip
             THEN ReplayLines(data, Tail(lines), key)
             ELSE ReplayLines(ReplayOp(data, d.op), Tail(lines), key)

\* replay_wal on the bytes read from the WAL file
replay_wal(data, content, key) == ReplayLines(data, SplitLines(content, <<>>), key)

(***************************************************************************)
(* A write through a WAL file handle.  new() opens the file with           *)
(* append(true): every write lands at the end of the file.  save() reopens *)
(* it with write(true).truncate(true): writes land at the handle's own     *)
(* position, which starts at 0.  Tokens are taken to be of one size.       *)
(***************************************************************************)
FileWrite(disk, h, toks) ==
    IF toks = <<>> THEN disk
    ELSE IF h.append THEN disk \o toks
    ELSE IF h.pos > Len(disk) THEN disk \o <<FragTok>> \o toks
    ELSE SubSeq(disk, 1, h.pos) \o toks \o SubSeq(disk, h.pos + Len(toks) + 1, Len(disk))

\* the handle's position after that write
FilePos(disk, h, toks) ==
    IF toks = <<>> \/ h.append THEN h.pos
    ELSE IF h.pos > Len(disk) THEN Len(disk) + 1 + Len(toks)
    ELSE h.pos + Len(toks)

\* BufWriter::new(file) for a file opened by new() (append) or by save()
NewWriter(append) == [append |-> append, pos |-> 0, buf |-> <<>>]

(***************************************************************************)
(* Snapshot and temp file contents: k is what the bytes are, val the tree  *)
(* they encode.                                                            *)
(***************************************************************************)
Absent == [val |-> Null, k |-> "absent", ids |-> {}, iv |-> 0]

\* a file that holds a strict prefix of a serialisation (possibly nothing)
Partial == [val |-> Null, k |-> "partial", ids |-> {}, iv |-> 0]

\* the `output` of save(): the envelope when there is a key, the JSON text
\* (pretty or compact) otherwise; ids names the mutation calls the tree holds
\* a serialisation that puts the same nonce into every envelope
SerializeFixedNonce(data, key, ids, iv) ==
    [val |-> data, k |-> IF key THEN "env" ELSE "json", ids |-> ids,
     iv |-> IF key THEN 1 ELSE 0]

Serialize(data, key, ids, iv) ==
    [val |-> data, k |-> IF key THEN "env" ELSE "json", ids |-> ids, iv |-> iv]

\* the JSON object an envelope is when read as plain JSON
EnvelopeObj == Obj([f \in {"content", "iv", "tag"} |-> Str("hex")])

\* What one changed byte makes of a complete snapshot file.  "corrupt": bytes
\* that are no JSON text, or an envelope that no longer decrypts.  "envcase":
\* the envelope with the case of one hex digit changed; hex::decode reads
\* both cases, so it stands for the same iv, content and tag.
Corruptions(content) ==
    IF content.k = "json" THEN {[val |-> Null, k |-> "corrupt", ids |-> {}, iv |-> 0]}
    ELSE IF content.k = "env"
         THEN {[val |-> Null, k |-> "corrupt", ids |-> {}, iv |-> 0],
               [val |-> content.val, k |-> "envcase", ids |-> content.ids,
                iv |-> content.iv]}
         ELSE {}

\* load()'s decoding of the bytes of the snapshot file: decrypt_content with a
\* key (an error when it fails); without one serde_json::from_slice, and {}
\* when that fails
DecodeSnapshot(content, key) ==
    IF key
    THEN IF content.k \in {"env", "envcase"}
         THEN [val |-> content.val, ok |-> TRUE]
         ELSE [val |-> Null, ok |-> FALSE]
    ELSE IF content.k = "json" THEN [val |-> content.val, ok |-> TRUE]
         ELSE IF content.k \in {"env", "envcase"} THEN [val |-> EnvelopeObj, ok |-> TRUE]
         ELSE [val |-> EmptyObj, ok |-> TRUE]

(***************************************************************************)
(* The inputs the model draws from.                                        *)
(***************************************************************************)
Threads == {1, 2}

Paths == {<<>>, <<"a">>, <<"a", "0">>, <<"a", "1">>}

Values == {Num(1)}

\* the ops arguments of batch(): JSON items with "type", "path" and "value"
BatchItem(type, path, value) == [path |-> path, value |-> value, type |-> type]

Batches ==
    { <<BatchItem("touch", <<"a">>, Null), BatchItem("set", <<>>, Num(1))>>,
      <<BatchItem("set", <<"a", "1">>, Num(1)), BatchItem("delete", <<"a", "0">>, Null)>> }

\* trees and arguments for the calls on a tree that is not empty: every tree
\* is what set("", tree) leaves
Trees ==
    {EmptyObj, Num(1), Arr(<<Num(1), Num(2)>>),
     Obj([x \in {"a"} |-> Num(1)]), Obj([x \in {"a"} |-> Null]),
     Obj([x \in {"a"} |-> Arr(<<Num(1), Num(2)>>)]),
     Obj([x \in {"a"} |-> Arr(<<Null>>)]),
     Obj([x \in {"a"} |-> Obj([y \in {"b"} |-> Num(1)])])}

TreePaths == Paths \cup {<<"0">>, <<"a", "b">>, <<"a", "b", "0">>, <<"a", "0", "b">>}

TreeValues == {Num(3), EmptyObj}

\* collections, queries and options for find
Items ==
    {Obj([x \in {"n", "age"} |-> IF x = "n" THEN Str("a") ELSE Num(3)]),
     Obj([x \in {"n", "age"} |-> IF x = "n" THEN Str("b") ELSE Num(2)]),
     Obj([x \in {"n", "age"} |-> IF x = "n" THEN Str("c") ELSE Num(4)]),
     Obj([x \in {"n"} |-> Str("d")])}

Collections ==
    {Arr(c) : c \in {c \in [1..3 -> Items] : \A j, l \in 1..3 : c[j] = c[l] => j = l}}
        \cup {Obj([x \in {"u"} |-> item]) : item \in Items} \cup {Num(1)}

FindTrees == {Obj([x \in {"users"} |-> c]) : c \in Collections}

FindPaths == {<<"users">>, <<"nope">>}

Queries ==
    {EmptyObj, Null,
     Obj([x \in {"age"} |-> Obj([y \in {"$gte"} |-> Num(3)])]),
     Obj([x \in {"age"} |-> Obj([y \in {"$exists"} |-> Bool(FALSE)])])}

Options ==
    {QueryOptions(limit, skip, sort, select) :
        limit \in {-1, 1, 2}, skip \in {-1, 1},
        sort \in {Null, Obj([x \in {"age"} |-> Num(1)]), Obj([x \in {"age"} |-> Num(-1)])},
        select \in {<<>>, <<<<"n">>>>, <<<<"n">>, <<"age">>>>}}

\* operator bags for the queries of find: one or two operators, each with a
\* target
Operators ==
    {"$eq", "$ne", "$gt", "$gte", "$lt", "$lte", "$in", "$nin", "$exists", "$foo"}

Targets == {Num(3), Null, Bool(TRUE), Bool(FALSE), Arr(<<Null>>)}

OperatorBags ==
    UNION {[ops -> Targets] : ops \in {ops \in SUBSET Operators : Cardinality(ops) \in {1, 2}}}

\* queries with one key, the field "age" that one of Items lacks, and an
\* operator bag as its condition
BagQueries == {Obj([x \in {"age"} |-> Obj(bag)]) : bag \in OperatorBags}

\* no options: options is None
NoOptions == QueryOptions(-1, -1, Null, <<>>)

(***************************************************************************)
(* State.                                                                  *)
(***************************************************************************)
VARIABLES
    encryption_key,  \* TRUE when the instance has a key (fixed for a behaviour)
    use_wal,         \* the use_wal flag (fixed for a behaviour)
    data,            \* the tree behind the RwLock
    readers,         \* the threads that hold data.read()
    writer,          \* the thread that holds data.write(), or 0
    wal_owner,       \* the thread that holds the WAL mutex, or 0
    wal_file,        \* the BufWriter behind the Mutex: buffer, mode and position
    wal_disk,        \* the bytes of the file at wal_path
    file,            \* the file at self.filename (the snapshot)
    tmp,             \* the file at tmp_path
    th,              \* per thread: where its call stands, and its locals
    muts,            \* history: the operations issued since the snapshot was last written
    scen,            \* history: which scenario the behaviour has followed so far
    applied_ids,     \* history: the mutation calls applied to the tree in memory
    cnt              \* how many calls, restarts and I/O failures the behaviour has had

vars == <<encryption_key, use_wal, data, readers, writer, wal_owner, wal_file, wal_disk,
          file, tmp, th, muts, scen, applied_ids, cnt>>

config == <<encryption_key, use_wal>>

\* who holds the write side of the RwLock, and who holds the WAL mutex
locks == <<writer, wal_owner>>

\* the arguments of find
FindArgs(path, query, options) == [path |-> path, query |-> query, options |-> options]

NoArgs == FindArgs(<<>>, Null, QueryOptions(-1, -1, Null, <<>>))

\* a thread that is in no call
IdleThread ==
    [operations |-> <<>>, id |-> 0, content |-> Absent, iv |-> 0, pc |-> "idle",
     call |-> "none", output |-> Absent, json_val |-> Null, wal_content |-> <<>>,
     res |-> "none", pre |-> Null, replaced |-> FALSE, truncated |-> FALSE,
     wal_err |-> FALSE, done |-> 0, torn_read |-> FALSE, recovered |-> FALSE,
     args |-> NoArgs, selected_results |-> <<>>]

\* DatabaseCore::new on the files as they are
Init ==
    /\ encryption_key \in BOOLEAN
    /\ use_wal \in BOOLEAN
    /\ data = EmptyObj
    /\ readers = {}
    /\ writer = 0
    /\ wal_owner = 0
    /\ wal_file = NewWriter(TRUE)
    /\ wal_disk = <<>>
    /\ file = Absent
    /\ tmp = Absent
    /\ th = [t \in Threads |-> IdleThread]
    /\ muts = <<>>
    /\ scen = "fresh"
    /\ applied_ids = {}
    /\ cnt = [mut |-> 0, save |-> 0, load |-> 0, restart |-> 0, fault |-> 0]

\* a lock that lets readers in while a writer holds it
CanReadAlways(t) == TRUE

\* data.read() is granted while no thread holds data.write()
CanRead(t) == writer = 0

\* data.write() is granted while no thread holds the lock in either mode
CanWrite(t) == writer = 0 /\ readers = {}

\* wal_file.lock() is granted while no thread holds the mutex
CanLockWal(t) == wal_owner = 0

\* the path a mutation takes after forming its operations
AfterCall == IF use_wal THEN "append" ELSE "apply"

StartMutation(t, name, operations) ==
    /\ cnt' = [cnt EXCEPT !.mut = @ + 1]
    /\ th' = [th EXCEPT ![t] = [IdleThread EXCEPT !.pc = AfterCall, !.call = name,
                                    !.operations = operations, !.pre = data,
                                    !.id = cnt.mut + 1]]
    /\ scen' = IF scen = "fresh" THEN "fresh" ELSE "other"
    /\ UNCHANGED <<config, locks, data, readers, wal_file, wal_disk, file, tmp, muts, applied_ids>>

\* set(path, value): form the operation
set(t, path, value) ==
    /\ th[t].pc = "idle"
    /\ cnt.mut < MaxMuts
    /\ StartMutation(t, "set", <<SetOp(path, value)>>)

\* delete(path): form the operation
delete(t, path) ==
    /\ th[t].pc = "idle"
    /\ cnt.mut < MaxMuts
    /\ StartMutation(t, "delete", <<DeleteOp(path)>>)

\* batch(ops): parse the items into operations
batch(t, ops) ==
    /\ th[t].pc = "idle"
    /\ cnt.mut < MaxMuts
    /\ StartMutation(t, "batch", BatchParse(ops))

\* The buffered writes of append_wal (one record) or of batch (all its
\* records), under the WAL mutex.  The BufWriter flushes itself when a write
\* does not fit: before token f (f = 0: the buffer has room for all).
BufferedWrite(w, disk, toks, f) ==
    IF f = 0
    THEN [disk |-> disk, w |-> [w EXCEPT !.buf = @ \o toks]]
    ELSE LET flushed == w.buf \o SubSeq(toks, 1, f - 1)
         IN  [disk |-> FileWrite(disk, w, flushed),
              w |-> [w EXCEPT !.buf = SubSeq(toks, f, Len(toks)),
                              !.pos = FilePos(disk, w, flushed)]]

\* a caller that goes on to the tree although the WAL write failed
AfterAppendIgnoringError(ok) == "apply"

\* set(), delete() and batch() after the WAL writes: `?` returns the error of a
\* failed write; otherwise the call goes on to data.write()
AfterAppend(ok) == IF ok THEN "apply" ELSE "ret"

append_wal(t) ==
    /\ th[t].pc = "append"
    /\ CanLockWal(t)
    /\ LET toks == WalRecords(th[t].operations, encryption_key, th[t].id)
       IN  \E f \in 0..Len(toks) :
             LET r == BufferedWrite(wal_file, wal_disk, toks, f)
             IN  /\ wal_file' = r.w
                 /\ wal_disk' = r.disk
    /\ th' = [th EXCEPT ![t].pc = AfterAppend(TRUE)]
    /\ UNCHANGED <<config, locks, data, readers, file, tmp, muts, scen, applied_ids, cnt>>

\* A write of append_wal or batch fails (the flush it needs fails): the call
\* returns the error.  The tokens written before the failing one stay in the
\* buffer; batch writes a record in pieces, so it may leave a fragment there.
append_wal_fail(t) ==
    /\ th[t].pc = "append"
    /\ CanLockWal(t)
    /\ cnt.fault < MaxFaults
    /\ LET toks == WalRecords(th[t].operations, encryption_key, th[t].id)
       IN  \E j \in 1..Len(toks) : \E piece \in BOOLEAN :
             /\ piece => (th[t].call = "batch" /\ toks[j].k = "rec")
             /\ wal_file' = [wal_file EXCEPT !.buf =
                                @ \o SubSeq(toks, 1, j - 1)
                                  \o (IF piece THEN <<FragTok>> ELSE <<>>)]
    /\ th' = [th EXCEPT ![t].pc = AfterAppend(FALSE), ![t].wal_err = TRUE,
                        ![t].res = IF AfterAppend(FALSE) = "ret" THEN "err" ELSE "none"]
    /\ cnt' = [cnt EXCEPT !.fault = @ + 1]
    /\ scen' = "other"
    /\ UNCHANGED <<config, locks, data, readers, wal_disk, file, tmp, muts, applied_ids>>

\* the tree after the in-memory part of a mutation call
Applied(d, call, operations) ==
    IF call = "set" THEN ApplySet(d, operations[1].path, operations[1].value)
    ELSE IF call = "delete" THEN ApplyDelete(d, operations[1].path)
    ELSE BatchApply(d, operations)

\* data.write() and the update of the tree, then Ok(())
apply(t) ==
    /\ th[t].pc = "apply"
    /\ CanWrite(t)
    /\ data' = Applied(data, th[t].call, th[t].operations)
    /\ th' = [th EXCEPT ![t].pc = "ret", ![t].res = "ok"]
    /\ muts' = muts \o th[t].operations
    /\ applied_ids' = applied_ids \cup {th[t].id}
    /\ UNCHANGED <<config, locks, readers, wal_file, wal_disk, file, tmp, scen, cnt>>

\* some thread has applied some but not all operations of its call
MidBatch ==
    \E w \in Threads :
        th[w].pc = "apply_step" /\ 0 < th[w].done /\ th[w].done < Len(th[w].operations)

\* the end of a call that gives back the read lock it may hold
Return(t, res) == [th EXCEPT ![t].pc = "ret", ![t].res = res]

\* OsRng.fill_bytes(&mut iv): any 96-bit value.  The model tells nonces apart
\* only by whether they are equal, so a draw is either one of the nonces
\* already on disk or on their way there, or one that differs from them all.
NoncesInUse == ({file.iv, tmp.iv} \cup {th[u].output.iv : u \in Threads}) \ {0}

FreshNonce == 1 + (CHOOSE n \in NoncesInUse \cup {0} : \A m \in NoncesInUse : m <= n)

Nonces == NoncesInUse \cup {FreshNonce}

\* save(): data.read() and the serialisation of the tree into `output`
save(t) ==
    /\ th[t].pc = "idle"
    /\ cnt.save < MaxSaves
    /\ CanRead(t)
    /\ cnt' = [cnt EXCEPT !.save = @ + 1]
    /\ readers' = readers \cup {t}
    /\ \E iv \in (IF encryption_key THEN Nonces ELSE {0}) :
          th' = [th EXCEPT ![t] = [IdleThread EXCEPT
                    !.pc = "save_create", !.call = "save",
                    !.output = Serialize(data, encryption_key, applied_ids, iv),
                    !.torn_read = MidBatch, !.iv = iv]]
    /\ scen' = IF scen = "fresh" THEN "saving" ELSE "other"
    /\ UNCHANGED <<config, locks, data, wal_file, wal_disk, file, tmp, muts, applied_ids>>

\* fs::File::create(&tmp_path)?
save_create(t) ==
    /\ th[t].pc = "save_create"
    /\ \/ /\ tmp' = Partial
          /\ th' = [th EXCEPT ![t].pc = "save_write"]
          /\ UNCHANGED <<readers, cnt>>
       \/ /\ cnt.fault < MaxFaults
          /\ cnt' = [cnt EXCEPT !.fault = @ + 1]
          /\ th' = Return(t, "err")
          /\ readers' = readers \ {t}
          /\ UNCHANGED tmp
    /\ scen' = IF th'[t].res = "err" THEN "other" ELSE scen
    /\ UNCHANGED <<config, locks, data, wal_file, wal_disk, file, muts, applied_ids>>

\* file.write_all(&output)?
save_write(t) ==
    /\ th[t].pc = "save_write"
    /\ \/ /\ tmp' = th[t].output
          /\ th' = [th EXCEPT ![t].pc = "save_rename"]
          /\ UNCHANGED <<readers, cnt>>
       \/ /\ cnt.fault < MaxFaults
          /\ cnt' = [cnt EXCEPT !.fault = @ + 1]
          /\ th' = Return(t, "err")
          /\ readers' = readers \ {t}
          /\ UNCHANGED tmp
    /\ scen' = IF th'[t].res = "err" THEN "other" ELSE scen
    /\ UNCHANGED <<config, locks, data, wal_file, wal_disk, file, muts, applied_ids>>

\* fs::rename(&tmp_path, &self.filename)?  (it fails when the temp file is
\* gone, or on an I/O error); without a WAL, save() ends here
save_rename(t) ==
    /\ th[t].pc = "save_rename"
    /\ \/ /\ tmp # Absent
          /\ file' = tmp
          /\ tmp' = Absent
          /\ muts' = <<>>
          /\ th' = [th EXCEPT ![t].replaced = TRUE,
                              ![t].pc = IF use_wal THEN "save_truncate" ELSE "ret",
                              ![t].res = IF use_wal THEN "none" ELSE "ok"]
          /\ readers' = IF use_wal THEN readers ELSE readers \ {t}
          /\ UNCHANGED cnt
       \/ /\ tmp = Absent \/ cnt.fault < MaxFaults
          /\ cnt' = IF tmp = Absent THEN cnt ELSE [cnt EXCEPT !.fault = @ + 1]
          /\ th' = Return(t, "err")
          /\ readers' = readers \ {t}
          /\ UNCHANGED <<file, tmp, muts>>
    /\ scen' = IF th'[t].res = "none" THEN scen
               ELSE IF th'[t].res = "ok" /\ scen = "saving" THEN "saved" ELSE "other"
    /\ UNCHANGED <<config, locks, data, wal_file, wal_disk, applied_ids>>

\* The "Truncate WAL" block of save(), under the WAL mutex: the file is opened
\* with truncate(true), then `*wal_file = BufWriter::new(wal_raw)` drops the old
\* BufWriter, which writes its buffer through the old handle and ignores an
\* error of that write.
save_truncate(t) ==
    /\ th[t].pc = "save_truncate"
    /\ CanLockWal(t)
    /\ \/ /\ wal_disk' = FileWrite(<<>>, wal_file, wal_file.buf)
          /\ wal_file' = NewWriter(FALSE)
          /\ th' = [Return(t, "ok") EXCEPT ![t].truncated = TRUE]
          /\ UNCHANGED cnt
       \/ /\ cnt.fault < MaxFaults
          /\ wal_file.buf # <<>>
          /\ cnt' = [cnt EXCEPT !.fault = @ + 1]
          /\ wal_disk' = <<>>
          /\ wal_file' = NewWriter(FALSE)
          /\ th' = [Return(t, "ok") EXCEPT ![t].truncated = TRUE]
       \/ /\ cnt.fault < MaxFaults
          /\ cnt' = [cnt EXCEPT !.fault = @ + 1]
          /\ th' = Return(t, "err")
          /\ UNCHANGED <<wal_file, wal_disk>>
    /\ readers' = readers \ {t}
    /\ scen' = IF th'[t].res = "ok" /\ cnt' = cnt /\ scen = "saving" THEN "saved" ELSE "other"
    /\ UNCHANGED <<config, locks, data, file, tmp, muts, applied_ids>>

\* load(): the "Crash Recovery" block; the result of the rename is ignored
load(t) ==
    /\ th[t].pc = "idle"
    /\ cnt.load < MaxLoads
    /\ \/ /\ file' = IF tmp # Absent THEN tmp ELSE file
          /\ tmp' = Absent
          /\ cnt' = [cnt EXCEPT !.load = @ + 1]
       \/ /\ tmp # Absent
          /\ cnt.fault < MaxFaults
          /\ cnt' = [cnt EXCEPT !.load = @ + 1, !.fault = @ + 1]
          /\ UNCHANGED <<file, tmp>>
    /\ th' = [th EXCEPT ![t] = [IdleThread EXCEPT !.pc = "load_read", !.call = "load",
                                                  !.recovered = tmp # Absent /\ file = Absent]]
    /\ scen' = IF scen \in {"reopened", "reopened_saved", "crashed"} /\ cnt'.fault = cnt.fault
               THEN scen ELSE "other"
    /\ UNCHANGED <<config, locks, data, readers, wal_file, wal_disk, muts, applied_ids>>

\* load(): self.filename.exists(), fs::read and the decoding of the content
load_read(t) ==
    /\ th[t].pc = "load_read"
    /\ \/ /\ file = Absent
          /\ th' = [th EXCEPT ![t].pc = "load_assign", ![t].json_val = EmptyObj]
          /\ UNCHANGED cnt
       \/ /\ file # Absent
          /\ LET json_val == DecodeSnapshot(file, encryption_key)
             IN  th' = IF json_val.ok
                       THEN [th EXCEPT ![t].pc = "load_assign", ![t].content = file,
                                       ![t].json_val = json_val.val]
                       ELSE [th EXCEPT ![t].pc = "ret", ![t].content = file,
                                       ![t].res = "err"]
          /\ UNCHANGED cnt
       \/ /\ file # Absent
          /\ cnt.fault < MaxFaults
          /\ cnt' = [cnt EXCEPT !.fault = @ + 1]
          /\ th' = Return(t, "err")
    /\ scen' = IF cnt'.fault = cnt.fault THEN scen ELSE "other"
    /\ UNCHANGED <<config, locks, data, readers, wal_file, wal_disk, file, tmp, muts, applied_ids>>

\* load(): data.write() and `*data = ...`; then self.wal_path.exists(): the
\* WAL file exists exactly when the instances of the behaviour use the WAL
\* (new() creates it, nothing removes it)
load_assign(t) ==
    /\ th[t].pc = "load_assign"
    /\ CanWrite(t)
    /\ data' = th[t].json_val
    /\ applied_ids' = th[t].content.ids
    /\ th' = IF use_wal THEN [th EXCEPT ![t].pc = "load_wal"] ELSE Return(t, "ok")
    /\ UNCHANGED <<config, locks, readers, wal_file, wal_disk, file, tmp, muts, scen, cnt>>

\* replay_wal: fs::read(&self.wal_path).unwrap_or(vec![])
load_wal(t) ==
    /\ th[t].pc = "load_wal"
    /\ \/ /\ th' = [th EXCEPT ![t].pc = "replay", ![t].wal_content = wal_disk]
          /\ UNCHANGED <<cnt, scen>>
       \/ /\ cnt.fault < MaxFaults
          /\ cnt' = [cnt EXCEPT !.fault = @ + 1]
          /\ scen' = "other"
          /\ th' = [th EXCEPT ![t].pc = "replay", ![t].wal_content = <<>>]
    /\ UNCHANGED <<config, locks, data, readers, wal_file, wal_disk, file, tmp, muts, applied_ids>>

\* the mutation calls whose records replay_wal applies
ReplayedIds(content, key) ==
    {l[1].id : l \in {x \in Range(SplitLines(content, <<>>)) :
                        x # <<>> /\ IsRecordLine(x) /\ ~DecodeLine(x, key).skip}}

\* replay_wal: data.write() and the loop over the lines
replay(t) ==
    /\ th[t].pc = "replay"
    /\ CanWrite(t)
    /\ data' = replay_wal(data, th[t].wal_content, encryption_key)
    /\ applied_ids' = applied_ids \cup ReplayedIds(th[t].wal_content, encryption_key)
    /\ th' = Return(t, "ok")
    /\ UNCHANGED <<config, locks, readers, wal_file, wal_disk, file, tmp, muts, scen, cnt>>

\* the caller has the result; the thread is free for the next call
ret(t) ==
    /\ th[t].pc = "ret"
    /\ th' = [th EXCEPT ![t] = IdleThread]
    /\ scen' = IF th[t].call = "load" THEN "other" ELSE scen
    /\ UNCHANGED <<config, locks, data, readers, wal_file, wal_disk, file, tmp, muts,
                   applied_ids, cnt>>

(***************************************************************************)
(* The mutation calls and the readers lock by lock.  append_wal(t) and     *)
(* apply(t) above take a lock, do all the work under it and give it back   *)
(* in one step; the actions below take the same calls one write and one    *)
(* operation at a time, with the locks held across the steps.              *)
(***************************************************************************)
\* wal_file_arc.lock() of append_wal and of batch
wal_lock(t) ==
    /\ th[t].pc = "append"
    /\ CanLockWal(t)
    /\ wal_owner' = t
    /\ th' = [th EXCEPT ![t].pc = "wal_write", ![t].done = 0]
    /\ UNCHANGED <<config, data, readers, writer, wal_file, wal_disk, file, tmp, muts, scen,
                   applied_ids, cnt>>

\* the writes of one operation's record and its "\n"; a write that fails
\* returns the error and the guard goes out of scope
wal_write(t) ==
    /\ th[t].pc = "wal_write"
    /\ th[t].done < Len(th[t].operations)
    /\ \/ /\ \E f \in 0..2 :
               LET r == BufferedWrite(wal_file, wal_disk,
                                      WalRecord(th[t].operations[th[t].done + 1],
                                                encryption_key, th[t].id), f)
               IN  /\ wal_file' = r.w
                   /\ wal_disk' = r.disk
          /\ th' = [th EXCEPT ![t].done = @ + 1]
          /\ UNCHANGED <<wal_owner, cnt, scen>>
       \/ /\ cnt.fault < MaxFaults
          /\ cnt' = [cnt EXCEPT !.fault = @ + 1]
          /\ scen' = "other"
          /\ th' = [th EXCEPT ![t].pc = AfterAppend(FALSE), ![t].wal_err = TRUE,
                              ![t].res = IF AfterAppend(FALSE) = "ret" THEN "err" ELSE "none"]
          /\ wal_owner' = 0
          /\ UNCHANGED <<wal_file, wal_disk>>
    /\ UNCHANGED <<config, data, readers, writer, file, tmp, muts, applied_ids>>

\* a write path that keeps the WAL mutex while it goes on to data.write()
wal_keep_locked(t) ==
    /\ th[t].pc = "wal_write"
    /\ th[t].done = Len(th[t].operations)
    /\ th' = [th EXCEPT ![t].pc = AfterAppend(TRUE), ![t].done = 0]
    /\ UNCHANGED <<config, locks, data, readers, wal_file, wal_disk, file, tmp, muts, scen,
                   applied_ids, cnt>>

\* the guard of the WAL mutex goes out of scope after the last write
wal_unlock(t) ==
    /\ th[t].pc = "wal_write"
    /\ th[t].done = Len(th[t].operations)
    /\ wal_owner' = 0
    /\ th' = [th EXCEPT ![t].pc = AfterAppend(TRUE), ![t].done = 0]
    /\ UNCHANGED <<config, data, readers, writer, wal_file, wal_disk, file, tmp, muts, scen,
                   applied_ids, cnt>>

\* self.data.write() of set, delete and batch
write_lock(t) ==
    /\ th[t].pc = "apply"
    /\ CanWrite(t)
    /\ writer' = t
    /\ th' = [th EXCEPT ![t].pc = "apply_step", ![t].done = 0, ![t].pre = data]
    /\ UNCHANGED <<config, data, readers, wal_owner, wal_file, wal_disk, file, tmp, muts,
                   scen, applied_ids, cnt>>

\* one iteration of the apply loop (the one update of set and delete)
apply_step(t) ==
    /\ th[t].pc = "apply_step"
    /\ th[t].done < Len(th[t].operations)
    /\ data' = BatchApplyOp(data, th[t].operations[th[t].done + 1])
    /\ th' = [th EXCEPT ![t].done = @ + 1]
    /\ UNCHANGED <<config, locks, readers, wal_file, wal_disk, file, tmp, muts, scen,
                   applied_ids, cnt>>

\* Ok(()): the write guard goes out of scope
write_unlock(t) ==
    /\ th[t].pc = "apply_step"
    /\ th[t].done = Len(th[t].operations)
    /\ writer' = 0
    /\ th' = [th EXCEPT ![t].pc = "ret", ![t].res = "ok"]
    /\ muts' = muts \o th[t].operations
    /\ applied_ids' = applied_ids \cup {th[t].id}
    /\ UNCHANGED <<config, data, readers, wal_owner, wal_file, wal_disk, file, tmp, scen,
                   cnt>>

\* get / has / find / find_one: self.data.read()
StartRead(t, name) ==
    /\ CanRead(t)
    /\ readers' = readers \cup {t}
    /\ th' = [th EXCEPT ![t] = [IdleThread EXCEPT !.pc = "read", !.call = name]]
    /\ scen' = "other"
    /\ UNCHANGED <<config, locks, data, wal_file, wal_disk, file, tmp, muts, applied_ids, cnt>>

\* get(path)
get_value(t) ==
    /\ th[t].pc = "idle"
    /\ StartRead(t, "get")

\* has(path): Ok(true) for the empty path, before any lock is taken
has(t, path) ==
    /\ th[t].pc = "idle"
    /\ IF path = <<>>
       THEN /\ th' = [th EXCEPT ![t] = [IdleThread EXCEPT !.pc = "ret", !.call = "has",
                                                          !.res = "ok"]]
            /\ scen' = "other"
            /\ UNCHANGED <<config, locks, data, readers, wal_file, wal_disk, file, tmp, muts,
                           applied_ids, cnt>>
       ELSE StartRead(t, "has")

\* the reader looks at the tree under its read guard and returns; the value
\* it computes goes to the caller
read(t) ==
    /\ th[t].pc = "read"
    /\ readers' = readers \ {t}
    /\ th' = [th EXCEPT ![t].pc = "ret", ![t].res = "ok", ![t].torn_read = MidBatch]
    /\ UNCHANGED <<config, locks, data, wal_file, wal_disk, file, tmp, muts, scen,
                   applied_ids, cnt>>

(***************************************************************************)
(* The end of an instance and the construction of the next one.            *)
(***************************************************************************)
\* DatabaseCore::new on the files as they are: an empty tree, and (with the
\* WAL in use) a writer on the WAL file opened in append mode
NewInstance ==
    /\ data' = EmptyObj
    /\ wal_file' = NewWriter(TRUE)
    /\ readers' = {}
    /\ writer' = 0
    /\ wal_owner' = 0
    /\ th' = [t \in Threads |-> IdleThread]
    /\ applied_ids' = {}
    /\ cnt' = [cnt EXCEPT !.restart = @ + 1]

\* The instance is dropped while no call runs: the BufWriter writes its buffer
\* out.  Then a new instance is constructed.
drop_instance ==
    /\ \A t \in Threads : th[t].pc = "idle"
    /\ cnt.restart < MaxRestarts
    /\ wal_disk' = FileWrite(wal_disk, wal_file, wal_file.buf)
    /\ NewInstance
    /\ scen' = IF scen = "fresh" THEN "reopened"
               ELSE IF scen = "saved" THEN "reopened_saved" ELSE "other"
    /\ UNCHANGED <<config, file, tmp, muts>>

\* the bytes of `toks` a write reached before the process died: k whole
\* tokens, and possibly a part of the record after them
TornPrefix(toks, k, torn) ==
    SubSeq(toks, 1, k)
      \o (IF torn /\ k < Len(toks) /\ toks[k + 1].k = "rec" THEN <<FragTok>> ELSE <<>>)

\* the operations of the calls the crash interrupts after they were issued
RECURSIVE InFlight(_)
InFlight(ts) ==
    IF ts = {} THEN <<>>
    ELSE LET t == CHOOSE x \in ts : \A y \in ts : x <= y
         IN  (IF th[t].pc \in {"append", "apply"} THEN th[t].operations ELSE <<>>)
               \o InFlight(ts \ {t})

\* What the WAL file may hold after the process dies.  The buffer is lost,
\* except for what a flush in progress has written: the flush of a write of
\* append_wal or batch, or the one of the BufWriter that save() drops after
\* it truncated the file.
CrashDisks ==
    {wal_disk}
      \cup UNION {
             LET out == wal_file.buf \o
                          SubSeq(WalRecords(th[t].operations, encryption_key, th[t].id), 1,
                                 2 * Len(th[t].operations) - 1)
             IN  {FileWrite(wal_disk, wal_file, TornPrefix(out, k, torn)) :
                      k \in 0..Len(out), torn \in BOOLEAN}
             : t \in {x \in Threads : th[x].pc = "append"}}
      \cup UNION {
             {FileWrite(<<>>, wal_file, TornPrefix(wal_file.buf, k, torn)) :
                  k \in 0..Len(wal_file.buf), torn \in BOOLEAN}
             : t \in {x \in Threads : th[x].pc = "save_truncate"}}

\* The process dies at any point, and a new instance is constructed.
crash ==
    /\ cnt.restart < MaxRestarts
    /\ wal_disk' \in CrashDisks
    /\ NewInstance
    /\ muts' = muts \o InFlight(Threads)
    /\ scen' = IF \A t \in Threads : th[t].call \in {"none", "set", "delete", "batch"}
               THEN "crashed" ELSE "other"
    /\ UNCHANGED <<config, file, tmp>>

\* find(path, query, options), all of it under data.read()
find(t, path, query, options) ==
    /\ th[t].pc = "idle"
    /\ CanRead(t)
    /\ th' = [th EXCEPT ![t] = [IdleThread EXCEPT
                  !.pc = "ret", !.call = "find", !.res = "ok",
                  !.args = FindArgs(path, query, options),
                  !.selected_results = FindResults(data, path, query, options)]]
    /\ scen' = "other"
    /\ UNCHANGED <<config, locks, data, readers, wal_file, wal_disk, file, tmp, muts,
                   applied_ids, cnt>>

\* one byte of the snapshot file is changed behind the program's back
corrupt ==
    /\ \A t \in Threads : th[t].pc = "idle"
    /\ file' \in Corruptions(file)
    /\ scen' = "other"
    /\ UNCHANGED <<config, locks, data, readers, wal_file, wal_disk, tmp, th, muts,
                   applied_ids, cnt>>

(***************************************************************************)
(* Specifications.  Spec: one caller, one call at a time, with restarts.   *)
(* ConcSpec: the threads of one instance call set, delete, batch and save  *)
(* concurrently.                                                           *)
(***************************************************************************)
Mutate(t) ==
    \/ \E path \in Paths, value \in Values : set(t, path, value)
    \/ \E path \in Paths : delete(t, path)
    \/ \E ops \in Batches : batch(t, ops)
    \/ append_wal(t)
    \/ append_wal_fail(t)
    \/ apply(t)

Save(t) ==
    \/ save(t)
    \/ save_create(t)
    \/ save_write(t)
    \/ save_rename(t)
    \/ save_truncate(t)

Load(t) ==
    \/ load(t)
    \/ load_read(t)
    \/ load_assign(t)
    \/ load_wal(t)
    \/ replay(t)

Next ==
    \/ \E t \in {1} : Mutate(t) \/ Save(t) \/ Load(t) \/ ret(t)
    \/ drop_instance
    \/ crash

Spec == Init /\ [][Next]_vars

ConcNext == \E t \in Threads : Mutate(t) \/ Save(t) \/ ret(t)

ConcSpec == Init /\ [][ConcNext]_vars

\* the batches that parse into more than one operation
LongBatches == {ops \in Batches : Len(BatchParse(ops)) > 1}

\* BatchSpec: thread 1 calls batch; thread 2 is the other writer (set), the
\* readers and save.  The calls run lock by lock.
MutateStepwise(t) ==
    \/ wal_lock(t)
    \/ wal_write(t)
    \/ wal_unlock(t)
    \/ write_lock(t)
    \/ apply_step(t)
    \/ write_unlock(t)

BatchNext ==
    \/ \E ops \in LongBatches : batch(1, ops)
    \/ \E value \in Values : set(2, <<"a">>, value)
    \/ get_value(2)
    \/ \E path \in {<<>>, <<"a">>} : has(2, path)
    \/ read(2)
    \/ Save(2)
    \/ \E t \in Threads : MutateStepwise(t) \/ ret(t)

\* the instance has no key: a batch takes the same locks and writes the same
\* number of records with one
BatchInit == Init /\ encryption_key = FALSE

BatchSpec == BatchInit /\ [][BatchNext]_vars

\* CorruptSpec: one caller that sets, saves and loads, with graceful restarts,
\* on a snapshot file that may get one byte changed after it was written
CorruptNext ==
    \/ \E t \in {1} :
          \/ \E path \in Paths, value \in Values : set(t, path, value)
          \/ append_wal(t)
          \/ apply(t)
          \/ Save(t)
          \/ Load(t)
          \/ ret(t)
    \/ drop_instance
    \/ corrupt

CorruptSpec == Init /\ [][CorruptNext]_vars

\* TreeSpec: set and delete, without WAL or key, on an instance whose tree is
\* any of Trees
TreeInit ==
    /\ encryption_key = FALSE
    /\ use_wal = FALSE
    /\ data \in Trees
    /\ readers = {}
    /\ writer = 0
    /\ wal_owner = 0
    /\ wal_file = NewWriter(TRUE)
    /\ wal_disk = <<>>
    /\ file = Absent
    /\ tmp = Absent
    /\ th = [t \in Threads |-> IdleThread]
    /\ muts = <<>>
    /\ scen = "other"
    /\ applied_ids = {}
    /\ cnt = [mut |-> 0, save |-> 0, load |-> 0, restart |-> 0, fault |-> 0]

TreeNext ==
    \/ \E path \in TreePaths, value \in TreeValues : set(1, path, value)
    \/ \E path \in TreePaths : delete(1, path)
    \/ apply(1)
    \/ ret(1)

TreeSpec == TreeInit /\ [][TreeNext]_vars

\* FindSpec: find, without WAL or key, on an instance whose tree is any of
\* FindTrees
FindInit ==
    /\ encryption_key = FALSE
    /\ use_wal = FALSE
    /\ data \in FindTrees
    /\ readers = {}
    /\ writer = 0
    /\ wal_owner = 0
    /\ wal_file = NewWriter(TRUE)
    /\ wal_disk = <<>>
    /\ file = Absent
    /\ tmp = Absent
    /\ th = [t \in Threads |-> IdleThread]
    /\ muts = <<>>
    /\ scen = "other"
    /\ applied_ids = {}
    /\ cnt = [mut |-> 0, save |-> 0, load |-> 0, restart |-> 0, fault |-> 0]

FindNext ==
    \/ \E path \in FindPaths, query \in Queries, options \in Options :
          find(1, path, query, options)
    \/ ret(1)

FindSpec == FindInit /\ [][FindNext]_vars

\* MatchSpec: find with the queries of BagQueries and no options, on the
\* instances of FindSpec
MatchNext ==
    \/ \E path \in FindPaths, query \in BagQueries : find(1, path, query, NoOptions)
    \/ ret(1)

MatchSpec == FindInit /\ [][MatchNext]_vars

\* NonceSpec: sets and a save with a key, on an instance whose snapshot file
\* is the one an earlier save() of its tree has written
NonceInit ==
    /\ encryption_key = TRUE
    /\ use_wal \in BOOLEAN
    /\ data \in {EmptyObj, Obj([x \in {"a"} |-> Num(1)])}
    /\ readers = {}
    /\ writer = 0
    /\ wal_owner = 0
    /\ wal_file = NewWriter(TRUE)
    /\ wal_disk = <<>>
    /\ file = Serialize(data, TRUE, {}, 1)
    /\ tmp = Absent
    /\ th = [t \in Threads |-> IdleThread]
    /\ muts = <<>>
    /\ scen = "other"
    /\ applied_ids = {}
    /\ cnt = [mut |-> 0, save |-> 0, load |-> 0, restart |-> 0, fault |-> 0]

NonceNext ==
    \/ \E path \in Paths, value \in Values : set(1, path, value)
    \/ append_wal(1)
    \/ apply(1)
    \/ Save(1)
    \/ ret(1)

NonceSpec == NonceInit /\ [][NonceNext]_vars

\* WalSpec: one caller whose mutations all succeed, that ends the instance
\* gracefully and loads; no snapshot is ever written.
WalNext ==
    \/ \E t \in {1} :
          \/ \E path \in Paths, value \in Values : set(t, path, value)
          \/ \E path \in Paths : delete(t, path)
          \/ \E ops \in Batches : batch(t, ops)
          \/ append_wal(t)
          \/ apply(t)
          \/ Load(t)
          \/ ret(t)
    \/ drop_instance

\* MutSpec: one caller that mutates, with WAL writes that may fail
MutNext == \E t \in {1} : Mutate(t) \/ ret(t)

MutSpec == Init /\ [][MutNext]_vars

WalSpec == Init /\ [][WalNext]_vars

\* ReloadSpec: thread 1 calls load while thread 2 calls set, get and has on
\* the same instance
ReloadNext ==
    \/ Load(1)
    \/ \E path \in Paths, value \in Values : set(2, path, value)
    \/ append_wal(2)
    \/ apply(2)
    \/ get_value(2)
    \/ \E path \in {<<>>, <<"a">>} : has(2, path)
    \/ read(2)
    \/ \E t \in Threads : ret(t)

ReloadSpec == Init /\ [][ReloadNext]_vars

\* LockSpec: the threads of one instance with the WAL in use call set,
\* delete, batch, save, load, get, has and find, each call taken lock by
\* lock.  find_one takes the read guard as find does.
LockInit == Init /\ encryption_key = FALSE /\ use_wal = TRUE

\* the steps in which t asks for a lock: it goes on once the lock is granted
Acquire(t) ==
    \/ wal_lock(t)
    \/ write_lock(t)
    \/ save_truncate(t)
    \/ load_assign(t)
    \/ replay(t)

\* the steps of t between two requests for a lock
Proceed(t) ==
    \/ wal_write(t)
    \/ wal_unlock(t)
    \/ apply_step(t)
    \/ write_unlock(t)
    \/ save_create(t)
    \/ save_write(t)
    \/ save_rename(t)
    \/ load_read(t)
    \/ load_wal(t)
    \/ read(t)

\* a batch of two operations on the root
RootBatch == <<BatchItem("set", <<>>, Num(1)), BatchItem("delete", <<>>, Null)>>

\* The threads that may start a call of set, delete, batch, save or load: at
\* most MaxCalls such calls are made in a behaviour.
CallingThreads ==
    IF cnt.mut + cnt.save + cnt.load < MaxCalls THEN Threads ELSE {}

\* Thread 1 is the one that calls set, delete and batch, thread 2 the one
\* that calls get, has and find; both call save and load.
MutatingThreads == CallingThreads \cap {1}

ReadingThreads == {2}

\* The calls the threads start.  The mutations address the root: what the
\* tree holds has no part in the locking.
Call ==
    \/ \E t \in MutatingThreads :
          \/ \E value \in Values : set(t, <<>>, value)
          \/ delete(t, <<>>)
          \/ batch(t, RootBatch)
    \/ \E t \in CallingThreads : save(t) \/ load(t)
    \/ \E t \in ReadingThreads :
          \/ get_value(t)
          \/ has(t, <<"a">>)
          \/ find(t, <<"a">>, EmptyObj, NoOptions)

LockNext == Call \/ \E t \in Threads : Acquire(t) \/ Proceed(t) \/ ret(t)

\* The scheduler lets every thread that can take a step take one.  The
\* RwLock and the Mutex of parking_lot hand the lock over fairly: a thread
\* that asks for a lock which is free again and again gets it.
Fairness == \A t \in Threads : WF_vars(Proceed(t)) /\ SF_vars(Acquire(t))

LockSpec == LockInit /\ [][LockNext]_vars /\ Fairness

(***************************************************************************)
(* Properties.                                                             *)
(***************************************************************************)
\* thread t is at the return of a call of `name` with result res
Returned(t, name, res) == th[t].pc = "ret" /\ th[t].call = name /\ th[t].res = res

\* the operations one after the other, each as the live set / delete applies it
RECURSIVE ApplyAll(_, _)
ApplyAll(d, operations) ==
    IF operations = <<>> THEN d
    ELSE ApplyAll(IF Head(operations).type = "Set"
                  THEN ApplySet(d, Head(operations).path, Head(operations).value)
                  ELSE ApplyDelete(d, Head(operations).path),
                  Tail(operations))

\* the tree the snapshot file stands for: {} when there is no file
SnapshotTree == IF file = Absent THEN EmptyObj ELSE file.val

\* the snapshot file is absent or holds a complete serialisation
SnapshotWhole == file.k \in {"absent", "json", "env"}

\* the records among the tokens
RecordsOf(toks) == {i \in DOMAIN toks : toks[i].k = "rec"}

\* C1: when save returns success (no I/O failure before it), the snapshot file
\* decodes to the tree in memory, the WAL file holds no record, and the temp
\* file does not exist.
C1_SaveLeavesCleanState ==
    \A t \in Threads :
        (Returned(t, "save", "ok") /\ cnt.fault = 0) =>
            /\ DecodeSnapshot(file, encryption_key).ok
            /\ DecodeSnapshot(file, encryption_key).val = data
            /\ RecordsOf(wal_disk) = {}
            /\ tmp = Absent

\* the lines of the WAL file that are one whole record, in file order
RECURSIVE RecordedOps(_)
RecordedOps(lines) ==
    IF lines = <<>> THEN <<>>
    ELSE (IF IsRecordLine(Head(lines)) THEN <<Head(lines)[1].op>> ELSE <<>>)
           \o RecordedOps(Tail(lines))

\* C2: when load returns success (no I/O failure on the way), the tree in
\* memory is the tree of the snapshot ({} when the file is absent) with every
\* operation recorded in the WAL file applied in file order.
C2_LoadIsSnapshotThenWal ==
    \A t \in Threads :
        (Returned(t, "load", "ok") /\ use_wal /\ SnapshotWhole /\ cnt.fault = 0) =>
            data = ApplyAll(SnapshotTree, RecordedOps(SplitLines(wal_disk, <<>>)))

\* C3: on a fresh database with the WAL in use, after mutations that all
\* succeeded and no save, an instance dropped with its buffer written out is
\* followed by an instance whose load succeeds and gives the tree the
\* mutations make of {}.
C3_WalRecovery ==
    \A t \in Threads :
        (th[t].pc = "ret" /\ th[t].call = "load" /\ scen = "reopened" /\ use_wal) =>
            /\ th[t].res = "ok"
            /\ data = ApplyAll(EmptyObj, muts)

\* C3 happens: a load after such a restart has rebuilt an array under "a"
C3_Witness ==
    /\ Returned(1, "load", "ok") /\ scen = "reopened" /\ use_wal
    /\ Len(muts) >= 2
    /\ is_object(data) /\ "a" \in DOMAIN data.o /\ is_array(data.o["a"])

\* C4: on a fresh database, after mutations and a save that succeeded, an
\* instance dropped and followed by a new instance whose load returns holds the
\* tree the first instance held when it saved, whatever the WAL file holds.
C4_RoundTripAfterSave ==
    \A t \in Threads :
        (th[t].pc = "ret" /\ th[t].call = "load" /\ scen = "reopened_saved") =>
            /\ th[t].res = "ok"
            /\ data = SnapshotTree

\* C5: when the process dies during a sequence of mutations with the WAL in
\* use, the load of the next instance gives the last snapshot with a prefix of
\* the mutations issued since that snapshot applied, and the prefix holds
\* every mutation whose record is whole in the WAL file.
C5_CrashKeepsPrefix ==
    \A t \in Threads :
        (Returned(t, "load", "ok") /\ scen = "crashed" /\ use_wal /\ SnapshotWhole
            /\ cnt.fault = 0) =>
            \E k \in Len(RecordedOps(SplitLines(wal_disk, <<>>)))..Len(muts) :
                data = ApplyAll(SnapshotTree, SubSeq(muts, 1, k))

\* a line replay takes as a record of this instance: one whole record in the
\* instance's format
WellFormedLine(line, key) == IsRecordLine(line) /\ line[1].enc = key

\* the WAL bytes with the lines that are no such record removed
RECURSIVE KeepWellFormed(_, _)
KeepWellFormed(lines, key) ==
    IF lines = <<>> THEN <<>>
    ELSE (IF WellFormedLine(Head(lines), key) THEN Head(lines) \o <<NlTok>> ELSE <<>>)
           \o KeepWellFormed(Tail(lines), key)

\* C6: a malformed line of the WAL is skipped: a load that returns success
\* gives the tree a load gives on the same WAL with the malformed lines removed.
C6_MalformedLinesSkipped ==
    \A t \in Threads :
        (Returned(t, "load", "ok") /\ use_wal /\ cnt.fault = 0) =>
            data = replay_wal(th[t].json_val,
                              KeepWellFormed(SplitLines(wal_disk, <<>>), encryption_key),
                              encryption_key)

\* C7: no load reads or promotes a partially written snapshot: the snapshot
\* file, and the bytes a load has read from it, are a complete serialisation.
C7_NoPartialSnapshot ==
    /\ file.k # "partial"
    /\ \A t \in Threads : th[t].call = "load" => th[t].content.k # "partial"

\* C8: save is all-or-nothing: whatever it returns, the snapshot file was
\* replaced if and only if the WAL file was truncated.
C8_SaveAllOrNothing ==
    \A t \in Threads :
        (th[t].pc = "ret" /\ th[t].call = "save" /\ use_wal) =>
            (th[t].replaced <=> th[t].truncated)

\* the mutation calls that have a record among the tokens
IdsOf(toks) == {toks[i].id : i \in RecordsOf(toks)}

\* C9: with the WAL in use, every mutation applied to the tree in memory is in
\* the snapshot file or has its record in the WAL (buffer or file), however
\* set, delete, batch and save interleave.
C9_AppliedIsDurable ==
    (use_wal /\ cnt.fault = 0) =>
        \A id \in applied_ids :
            id \in file.ids \/ id \in IdsOf(wal_file.buf) \/ id \in IdsOf(wal_disk)

\* C10: when a WAL write of set, delete or batch fails, the call returns an
\* error and the tree in memory is the one the call found (no operation of a
\* batch is applied).
C10_FailedAppendLeavesTree ==
    \A t \in Threads :
        (th[t].pc = "ret" /\ th[t].wal_err) =>
            /\ th[t].res = "err"
            /\ data = th[t].pre

\* C10 happens: a batch that would have changed the tree returned the error
\* after it had written a record
C10_Witness ==
    /\ th[1].pc = "ret" /\ th[1].wal_err /\ th[1].call = "batch"
    /\ wal_file.buf # <<>>
    /\ Applied(th[1].pre, "batch", th[1].operations) # th[1].pre

\* the records of one call lie together among the records of the tokens
Contiguous(toks) ==
    \A i, j, k \in RecordsOf(toks) :
        (i < j /\ j < k /\ toks[i].id = toks[k].id) => toks[j].id = toks[i].id

\* C11: a batch is atomic in memory and contiguous in the WAL: no get, has or
\* save has looked at the tree while some but not all operations of a batch
\* were applied; under the write lock the tree is the one the batch found with
\* its operations applied in the order given; and the records of one call are
\* not interleaved with the records of another writer.
C11_BatchAtomic ==
    /\ \A t \in Threads : ~th[t].torn_read
    /\ \A t \in Threads :
          th[t].pc = "apply_step" =>
              data = BatchApply(th[t].pre, SubSeq(th[t].operations, 1, th[t].done))
    /\ Contiguous(wal_file.buf)
    /\ Contiguous(wal_disk)
    /\ wal_file.append => Contiguous(wal_disk \o wal_file.buf)

\* C11 happens: a batch of two operations has its records in the WAL next to
\* those of another writer and waits for the write lock while a reader holds
\* the tree
C11_Witness ==
    /\ th[1].call = "batch" /\ th[1].pc = "apply" /\ Len(th[1].operations) = 2
    /\ th[2].pc = "read"
    /\ IdsOf(wal_disk \o wal_file.buf) = {1, 2}

\* C12: a load that has read a snapshot file with one byte changed since it
\* was saved returns an error.
C12_CorruptSnapshotFails ==
    \A t \in Threads :
        (th[t].pc = "ret" /\ th[t].call = "load"
            /\ th[t].content.k \in {"corrupt", "envcase"}) =>
            th[t].res = "err"

\* C13: a load that found the temp file and no snapshot file returns with the
\* temp file renamed to the snapshot file, no temp file left, and the tree
\* equal to the temp file's content with the WAL replayed on top.
C13_TempRecovery ==
    \A t \in Threads :
        (th[t].pc = "ret" /\ th[t].call = "load" /\ th[t].recovered /\ cnt.fault = 0) =>
            /\ th[t].res = "ok"
            /\ tmp = Absent
            /\ file = th[t].content
            /\ data = replay_wal(DecodeSnapshot(th[t].content, encryption_key).val,
                                 wal_disk, encryption_key)

\* the walk of `parts` from `current` comes to an array of the tree at a
\* segment that is no index
RECURSIVE MeetsArrayAtName(_, _)
MeetsArrayAtName(current, parts) ==
    IF parts = <<>> THEN FALSE
    ELSE LET part == Head(parts)
         IN  IF is_array(current)
             THEN IF ~IsIndex(part) THEN TRUE
                  ELSE IF ParseIndex(part) < Len(current.a)
                       THEN MeetsArrayAtName(current.a[ParseIndex(part) + 1], Tail(parts))
                       ELSE FALSE
             ELSE IF is_object(current) /\ part \in DOMAIN current.o
                  THEN MeetsArrayAtName(current.o[part], Tail(parts))
                  ELSE FALSE

\* C14: after a returned set(p, v) with p non-empty, on a tree where the walk
\* of p meets no existing array at a non-numeric segment, get(p) is v.
C14_SetThenGet ==
    \A t \in Threads :
        (th[t].pc = "ret" /\ th[t].call = "set" /\ th[t].res = "ok"
            /\ th[t].operations[1].path # <<>>
            /\ ~MeetsArrayAtName(th[t].pre, th[t].operations[1].path)) =>
            get_value_by_path(data, th[t].operations[1].path)
                = Some(th[t].operations[1].value)

\* C15: a set(p, v) that follows the same set(p, v) leaves the tree as the
\* first one left it.
C15_SetIdempotent ==
    \A t \in Threads :
        (th[t].pc = "ret" /\ th[t].call = "set" /\ Len(muts) >= 2
            /\ muts[Len(muts) - 1] = muts[Len(muts)]) =>
            data = th[t].pre

\* the second of two equal sets has returned, on a path through an array
\* that the first one had to pad
C15_Witness ==
    /\ th[1].pc = "ret" /\ th[1].call = "set"
    /\ Len(muts) = 2 /\ muts[1] = muts[2]
    /\ muts[2].path = <<"a", "1">>
    /\ is_object(data) /\ "a" \in DOMAIN data.o
    /\ is_array(data.o["a"]) /\ Len(data.o["a"].a) = 2 /\ is_null(data.o["a"].a[1])

\* a delete by t has returned that follows the same delete
RepeatedDelete(t) ==
    /\ th[t].pc = "ret" /\ th[t].call = "delete" /\ Len(muts) >= 2
    /\ muts[Len(muts) - 1] = muts[Len(muts)]

\* C16: a delete(p) that follows the same delete(p) leaves the tree as the
\* first one left it, exactly when p is empty or, after the first delete, p
\* no longer resolves; an array element with later elements is spliced out,
\* the later ones shift down, and the second delete removes the next one.
C16_DeleteIdempotentUnlessShift ==
    \A t \in Threads :
        RepeatedDelete(t) =>
            LET path == th[t].operations[1].path
            IN  (data = th[t].pre)
                    <=> (path = <<>> \/ ~get_value_by_path(th[t].pre, path).some)

\* the second delete of index 0 of an array of two elements has returned
C16_Witness ==
    /\ RepeatedDelete(1)
    /\ Len(muts) = 2 /\ muts[2].path = <<"a", "0">>
    /\ is_object(data) /\ "a" \in DOMAIN data.o /\ data.o["a"] = Arr(<<>>)
    /\ th[1].pre = Obj([x \in {"a"} |-> Arr(<<Num(2)>>)])

\* C16 as stated: a delete(p) that follows the same delete(p) leaves the tree
\* as the first one left it, for every tree and path.
C16_DeleteIdempotent ==
    \A t \in Threads : RepeatedDelete(t) => data = th[t].pre

\* a find by t has returned
FindReturned(t) == th[t].pc = "ret" /\ th[t].call = "find"

\* the object that holds, of the listed paths, those that exist in the item,
\* each with the item's value
RECURSIVE Selected(_, _, _)
Selected(item, fields, acc) ==
    IF fields = <<>> THEN acc
    ELSE LET found == get_value_by_path(item, Head(fields))
         IN  Selected(item, Tail(fields),
                      IF found.some THEN set_value_by_path(acc, Head(fields), found.it)
                      ELSE acc)

\* the projection of an item: the item itself for an empty select
Projection(item, fields) ==
    IF fields = <<>> THEN item ELSE Selected(item, fields, EmptyObj)

\* C17: with a non-empty select, each item find returns is a new object with
\* exactly the listed paths that exist in its source item, with the source's
\* values.
C17_FindProjects ==
    \A t \in Threads :
        (FindReturned(t) /\ th[t].args.options.select # <<>>) =>
            LET source == Limited(data, th[t].args.path, th[t].args.query, th[t].args.options)
            IN  /\ Len(th[t].selected_results) = Len(source)
                /\ \A j \in 1..Len(source) :
                       th[t].selected_results[j]
                           = Selected(source[j], th[t].args.options.select, EmptyObj)

\* the permutations of 1..n
Perms(n) == {p \in [1..n -> 1..n] : \A j, l \in 1..n : p[j] = p[l] => j = l}

\* p sorts the items stably by sort_opts: no item is Greater than a later
\* one, and items that compare Equal keep their order
StablySorts(p, items, sort_opts) ==
    \A j, l \in 1..Len(items) :
        j < l =>
            LET c == sort_json(items[p[j]], items[p[l]], sort_opts)
            IN  c < 0 \/ (c = 0 /\ p[j] < p[l])

\* C18: find returns the projection of the items at positions skip ..
\* skip+limit-1 of the stably sorted list of all the items that match the
\* query.
C18_PipelineOrder ==
    \A t \in Threads :
        FindReturned(t) =>
            LET options == th[t].args.options
                matching == SelectSeq(Elements(get_value_by_path(data, th[t].args.path)),
                                      LAMBDA item : matches_query(item, th[t].args.query))
                skip == IF options.skip < 0 THEN 0 ELSE options.skip
                rest == IF Len(matching) > skip THEN Len(matching) - skip ELSE 0
                count == IF options.limit < 0 \/ options.limit > rest THEN rest
                         ELSE options.limit
            IN  \E p \in Perms(Len(matching)) :
                    /\ StablySorts(p, matching, options.sort)
                    /\ Len(th[t].selected_results) = count
                    /\ \A j \in 1..count :
                           th[t].selected_results[j]
                               = Projection(matching[p[skip + j]], options.select)

\* the item has the field of the sort options
HasSortField(item, sort_opts) ==
    \A key \in DOMAIN sort_opts.o : get_value_by_path(item, Split(key)).some

\* C19: in what find returns for an ascending sort key, no item that lacks
\* the sort field comes before one that has it; for a descending sort key, no
\* item that has the field comes before one that lacks it.
C19_MissingSortLast ==
    \A t \in Threads :
        (FindReturned(t) /\ is_object(th[t].args.options.sort)
            /\ th[t].args.options.select = <<>>) =>
            LET sort_opts == th[t].args.options.sort
                results == th[t].selected_results
                ascending == \A key \in DOMAIN sort_opts.o : sort_opts.o[key].n >= 0
            IN  \A j, l \in 1..Len(results) :
                    j < l =>
                        IF ascending
                        THEN ~(~HasSortField(results[j], sort_opts)
                                 /\ HasSortField(results[l], sort_opts))
                        ELSE ~(HasSortField(results[j], sort_opts)
                                 /\ ~HasSortField(results[l], sort_opts))

\* the bytes of a snapshot file: what they are, the tree and the nonce
Bytes(content) == <<content.k, content.val, content.iv>>

\* the step is the rename of a save by t, over an encrypted snapshot of the
\* same tree
ResavesTree(t) ==
    /\ th[t].pc = "save_rename" /\ th'[t].pc # "save_rename"
    /\ file' = th[t].output
    /\ file.k = "env" /\ file'.k = "env" /\ file'.val = file.val

SetReturned(t) ==
    /\ th[t].pc = "ret" /\ th[t].call = "set" /\ th[t].res = "ok"
    /\ th[t].operations[1].path # <<>>

\* the first k segments of a path
Prefix(path, k) == SubSeq(path, 1, k)

\* the numbers k of segments after which the walk of `path` in `root` stands
\* on a node that is neither object nor array, with a segment left to process
ScalarPrefixes(root, path) ==
    {k \in 0..(Len(path) - 1) :
        LET node == get_value_by_path(root, Prefix(path, k))
        IN  node.some /\ ~is_object(node.it) /\ ~is_array(node.it)}

\* C21: after a returned set, every node of the earlier tree on the walk of
\* the path that was neither object nor array is a container whose kind the
\* segment processed at that node dictates: an array if that segment is an
\* index, an object otherwise, at the terminal segment and before it.
C21_ScalarReplacedByKindOfSegment ==
    \A t \in Threads :
        SetReturned(t) =>
            LET path == th[t].operations[1].path
            IN  \A k \in ScalarPrefixes(th[t].pre, path) :
                    LET node == get_value_by_path(data, Prefix(path, k))
                    IN  /\ node.some
                        /\ IF IsIndex(path[k + 1])
                           THEN is_array(node.it)
                           ELSE is_object(node.it)

\* C22: a returned set with a non-empty path replaces no container of the
\* earlier tree on the way to the target: a proper prefix of the path that
\* resolved to an object still resolves to an object with the same other
\* keys and values, one that resolved to an array still resolves to an array
\* that kept its other elements, and when the walk meets an array of the
\* earlier tree at a segment that is no index the tree is as it was.
C22_ExistingContainersKept ==
    \A t \in Threads :
        SetReturned(t) =>
            LET path == th[t].operations[1].path
                pre == th[t].pre
            IN  /\ \A k \in 0..(Len(path) - 1) :
                       LET old == get_value_by_path(pre, Prefix(path, k))
                           new == get_value_by_path(data, Prefix(path, k))
                           part == path[k + 1]
                       IN  /\ (old.some /\ is_object(old.it)) =>
                                  /\ new.some /\ is_object(new.it)
                                  /\ (DOMAIN new.it.o) \ {part} = (DOMAIN old.it.o) \ {part}
                                  /\ \A key \in (DOMAIN old.it.o) \ {part} :
                                         new.it.o[key] = old.it.o[key]
                           /\ (old.some /\ is_array(old.it)) =>
                                  /\ new.some /\ is_array(new.it)
                                  /\ Len(new.it.a) >= Len(old.it.a)
                                  /\ \A i \in 1..Len(old.it.a) :
                                         (~IsIndex(part) \/ i # ParseIndex(part) + 1) =>
                                             new.it.a[i] = old.it.a[i]
                /\ MeetsArrayAtName(pre, path) => data = pre

\* a set has returned that went through two objects of the earlier tree and
\* added a key next to the one the inner object had
C22_Witness ==
    /\ SetReturned(1)
    /\ th[1].operations[1].path = <<"a", "0">>
    /\ th[1].pre = Obj([x \in {"a"} |-> Obj([y \in {"b"} |-> Num(1)])])
    /\ data = Obj([x \in {"a"} |-> Obj([y \in {"0", "b"} |->
                      IF y = "b" THEN Num(1) ELSE th[1].operations[1].value])])

\* the condition is an operator bag: an object with a key that starts with $
IsOperatorBag(condition) ==
    is_object(condition) /\ \E key \in DOMAIN condition.o : StartsWithDollar(key)

\* C23: in what find returns for a query, an item that lacks the field a key
\* of the query addresses, where that key's condition is an operator bag, is
\* there only if every operator of the bag is $exists with target false.
C23_MissingFieldMatchesOnlyExistsFalse ==
    \A t \in Threads :
        (FindReturned(t) /\ is_object(th[t].args.query)
            /\ th[t].args.options = NoOptions) =>
            LET query == th[t].args.query
                items == Elements(get_value_by_path(data, th[t].args.path))
            IN  \A key \in DOMAIN query.o : \A j \in DOMAIN items :
                    (/\ IsOperatorBag(query.o[key])
                     /\ ~get_value_by_path(items[j], Split(key)).some
                     /\ items[j] \in Range(th[t].selected_results)) =>
                        \A op \in DOMAIN query.o[key].o :
                            op = "$exists" /\ query.o[key].o[op] = Bool(FALSE)

\* a find with the bag {$exists: false} on "age" has returned the one item of
\* three that has no age
C23_Witness ==
    /\ FindReturned(1)
    /\ th[1].args.query = Obj([x \in {"age"} |-> Obj([y \in {"$exists"} |-> Bool(FALSE)])])
    /\ th[1].args.options = NoOptions
    /\ Len(Elements(get_value_by_path(data, th[1].args.path))) = 3
    /\ th[1].selected_results = <<Obj([x \in {"n"} |-> Str("d")])>>

\* the step is the truncation of the WAL by a save of t
Truncates(t) == th[t].pc = "save_truncate" /\ th'[t].truncated

\* thread u is in a mutation call that has written its records to the WAL
\* and has not yet updated the tree
AppendedNotApplied(u) ==
    /\ use_wal
    /\ th[u].call \in {"set", "delete", "batch"}
    /\ th[u].pc = "apply"

\* C24: when a save truncates the WAL it holds the tree lock exclusively, and
\* no set, delete or batch is between the append of its WAL record and the
\* update of the tree.
C24_TruncateUnderWriteLock ==
    [][\A t \in Threads :
          Truncates(t) =>
              /\ writer = t
              /\ \A u \in Threads : ~AppendedNotApplied(u)]_vars

\* the second half of C24 alone: a truncation never finds a mutation between
\* its append and its update of the tree
NoAppendPendingAtTruncate ==
    [][\A t \in Threads : Truncates(t) => \A u \in Threads : ~AppendedNotApplied(u)]_vars

\* what the WAL holds: the bytes of the file, then those still in the buffer
WalContent == wal_disk \o wal_file.buf

\* no call is under way, no I/O has failed and no save has truncated the WAL
Quiescent ==
    /\ \A t \in Threads : th[t].pc \in {"idle", "ret"}
    /\ cnt.fault = 0 /\ cnt.save = 0

\* C25: with the WAL in use, once the mutations issued by the threads have
\* returned, their records stand in the WAL in the order in which they were
\* applied to the tree, and replaying the WAL on the empty tree gives the
\* tree in memory.
C25_WalOrderIsApplyOrder ==
    (use_wal /\ Quiescent) =>
        /\ RecordedOps(SplitLines(WalContent, <<>>)) = muts
        /\ replay_wal(EmptyObj, WalContent, encryption_key) = data

\* the load of t has replaced the tree by the snapshot and has not finished
\* the replay of the WAL
BetweenAssignAndReplay(t) == th[t].call = "load" /\ th[t].pc \in {"load_wal", "replay"}

\* in this step u looks at the tree under its read guard
Reads(u) == th[u].pc = "read" /\ th'[u].pc = "ret"

\* in this step the mutation of u updates the tree
Applies(u) == th[u].pc = "apply" /\ th'[u].pc = "ret"

\* C26: from the replacement of the tree by the snapshot to the end of the
\* WAL replay, load holds the tree lock exclusively; no other thread reads
\* the tree and no set is applied in between.
C26_LoadAtomic ==
    [][\A t \in Threads :
          BetweenAssignAndReplay(t) =>
              /\ writer = t
              /\ \A u \in Threads \ {t} : ~Reads(u) /\ ~Applies(u)]_vars

\* the second half of C26 alone: no read and no update by another thread
\* between the two steps of load
NoAccessDuringLoad ==
    [][\A t \in Threads :
          BetweenAssignAndReplay(t) =>
              \A u \in Threads \ {t} : ~Reads(u) /\ ~Applies(u)]_vars

\* t holds the WAL mutex; t holds the tree lock, shared or exclusive
HoldsWal(t) == wal_owner = t

HoldsTree(t) == writer = t \/ t \in readers

\* t stands at a request for the tree lock; at one for the WAL mutex
WaitsForTree(t) == th[t].pc \in {"apply", "load_assign", "replay"}

WaitsForWal(t) == th[t].pc \in {"append", "save_truncate"}

\* t is in a call that has not come to its return
Started(t) == th[t].pc \notin {"idle", "ret"}

\* t asks for a lock that is not free
Blocked(t) ==
    \/ WaitsForTree(t) /\ ~CanWrite(t)
    \/ WaitsForWal(t) /\ ~CanLockWal(t)

\* no thread waits for the tree lock with the WAL mutex in hand while another
\* waits for the WAL mutex with the tree lock in hand, and of the threads in
\* a call one at least can go on
NoCircularWait ==
    /\ ~\E t, u \in Threads :
           /\ HoldsWal(t) /\ WaitsForTree(t)
           /\ HoldsTree(u) /\ WaitsForWal(u)
    /\ (\E t \in Threads : Started(t)) => \E t \in Threads : Started(t) /\ ~Blocked(t)

\* C27: the calls of the threads of one instance never come to a deadlock on
\* the tree lock and the WAL mutex, and under fair scheduling every call that
\* has started comes to its return.
C27_NoDeadlock ==
    /\ []NoCircularWait
    /\ \A t \in Threads : Started(t) ~> (th[t].pc = "ret")

\* a save holds the read guard and asks for the WAL mutex while the other
\* thread holds the mutex in the middle of its WAL writes
C27_Witness ==
    /\ th[2].call = "save" /\ th[2].pc = "save_truncate" /\ 2 \in readers
    /\ wal_owner = 1 /\ th[1].pc = "wal_write"

=============================================================================
